---------------------------- MODULE Spec2Model ----------------------------
(***************************************************************************)
(* A model of the dae-cpp support code: SolverOptions (check_options,      *)
(* set_iparm_for_pardiso), the Jacobian helper classes                      *)
(* (JacobianMatrixShape, JacobianAutomatic), the RHS functor of the unit   *)
(* test, the Solution Manager classes (SolutionManager, SolutionHolder,    *)
(* Solution) and the time integration driver behind Solver::operator().    *)
(*                                                                         *)
(* Each component is a unit with its own variables, initial condition,     *)
(* next-state relation and specification; a unit's specification keeps     *)
(* the other units' variables at their idle values.                        *)
(*                                                                         *)
(* Numbers: a double is modelled by an integer (a finite, non-NaN value);  *)
(* Jacobian values are integers in units of                                *)
(* DAECPP_SPARSE_MATRIX_ELEMENT_TOLERANCE.                                  *)
(***************************************************************************)
EXTENDS Integers, Sequences, FiniteSets, TLC

VARIABLES
    \* ---- SolverOptions ----
    bdf_order,              \* SolverOptions::bdf_order
    preconditioned_CGS,     \* SolverOptions::preconditioned_CGS
    refinement_steps,       \* SolverOptions::refinement_steps
    parallel_fact_control,  \* SolverOptions::parallel_fact_control
    parallel_solve_control, \* SolverOptions::parallel_solve_control
    iparm,                  \* the caller's MKL_INT iparm[64]
    iparm_op,               \* the last operation on the knobs and the array
    iparm_before,           \* history: the array before the set_iparm_for_pardiso just
                            \* made (the array itself after any other operation)
    opt_op,                 \* the last operation on bdf_order
    bdf_before,             \* history: bdf_order before the last check_options()
    n_checks,               \* history: consecutive check_options() calls (capped)
    \* ---- RHS (unit test) ----
    rhs_x,                  \* state_type x
    rhs_t,                  \* double t
    rhs_f,                  \* state_type f
    rhs_n_eval,             \* history: consecutive rhs(f, x, t) calls (capped)
    rhs_x_before,           \* history: x before the last call
    rhs_op,                 \* the last operation
    rhs_f_before,           \* history: f before the call just made (f itself after any
                            \* other operation)
    rhs_f_first,            \* history: f after the first of the consecutive calls
    \* ---- JacobianMatrixShape ----
    m_Jn,                   \* std::vector<std::pair<int_type, int_type>> m_Jn
    m_N_elements,           \* int_type m_N_elements
    shape_op,               \* the last operation on the object
    shape_ins,              \* the insertions J(i, j, v) of the build just made
    shape_size,             \* x.size() of the build just made
    shape_t,                \* t of the build just made
    shape_x_index,          \* the indices k of the x_[k] of the build just made
    j_reserve,              \* the J.reserve call of the build just made
    n_builds,               \* history: builds started so far: 0, 1 or 2 for more
    last_count,             \* history: insertions of the latest build
    prev_count,             \* history: insertions of the build before the latest
    prev_ins,               \* history: the positions inserted by the build right before,
                            \* if the operation before the latest build was a build too
    res_since,              \* history: the reserve() call since the latest build
    res_at_build,           \* history: res_since when the latest build started
    \* ---- JacobianAutomatic ----
    auto_size,              \* x.size() of the build just made
    auto_jac,               \* the dense Jacobian autodiff::jacobian returned
    auto_ins,               \* the insertions J(i, j, val) of the build just made
    auto_op,                \* the last operation
    \* ---- SolutionHolder / Solution ----
    sol_x,                  \* SolutionHolder::x
    sol_t,                  \* SolutionHolder::t
    t_out,                  \* Solution::_t_out
    sol_t_output,           \* history: the constructor's t_output
    sol_x0,                 \* history: the holder's x at construction
    sol_t0,                 \* history: the holder's t at construction
    sol_calls,              \* history: the (x_, t_) of every operator() call
    sol_ret,                \* the value the last operator() call returned
    print_assert,           \* what the ASSERT of the last print() found
    \* ---- Solver (the time integration driver and the step controller) ----
    drv_status,             \* running, finished, stopped (by the callback) or failed
    drv_phase,              \* the controller's state: correct or evaluate
    drv_t,                  \* the accepted time
    drv_x,                  \* the accepted state (each state is named by a number)
    drv_hist,               \* the step history: the last k accepted states
    drv_h,                  \* the step size
    drv_k,                  \* the BDF order
    drv_fail,               \* the consecutive-failure counter
    drv_cand,               \* the corrector's converged state, 0 when there is none
    drv_attempt,            \* the number of step attempts made
    drv_error,              \* the failure reported, "none" when there is none
    drv_report,             \* the state and time reported when the run ended
    drv_manager,            \* the Solution Manager passed: "default" or "user"
    drv_calls,              \* history: the callback invocations [x, t, ret]
    drv_accepted,           \* history: the accepted steps <<x, t>>
    drv_hist_accept         \* history: the step history after the latest accepted step

optVars == <<bdf_order, opt_op, bdf_before, n_checks>>
iparmVars == <<preconditioned_CGS, refinement_steps, parallel_fact_control,
               parallel_solve_control, iparm, iparm_op, iparm_before>>
rhsVars == <<rhs_x, rhs_t, rhs_f, rhs_op, rhs_n_eval, rhs_x_before, rhs_f_before,
             rhs_f_first>>
shapeVars == <<m_Jn, m_N_elements, shape_op, shape_ins, shape_size, shape_t,
               shape_x_index, j_reserve,
               n_builds, last_count, prev_count, prev_ins, res_since, res_at_build>>
autoVars == <<auto_size, auto_jac, auto_ins, auto_op>>
solVars == <<sol_x, sol_t, t_out, sol_t_output, sol_x0, sol_t0, sol_calls, sol_ret,
             print_assert>>
drvVars == <<drv_status, drv_phase, drv_t, drv_x, drv_hist, drv_h, drv_k, drv_fail,
             drv_cand, drv_attempt, drv_error, drv_report, drv_manager, drv_calls,
             drv_accepted, drv_hist_accept>>
vars == <<optVars, iparmVars, rhsVars, shapeVars, autoVars, solVars, drvVars>>

notOptVars == <<iparmVars, rhsVars, shapeVars, autoVars, solVars, drvVars>>
notIparmVars == <<optVars, rhsVars, shapeVars, autoVars, solVars, drvVars>>
notRhsVars == <<optVars, iparmVars, shapeVars, autoVars, solVars, drvVars>>
notShapeVars == <<optVars, iparmVars, rhsVars, autoVars, solVars, drvVars>>
notAutoVars == <<optVars, iparmVars, rhsVars, shapeVars, solVars, drvVars>>
notDrvVars == <<optVars, iparmVars, rhsVars, shapeVars, autoVars, solVars>>
notSolVars == <<optVars, iparmVars, rhsVars, shapeVars, autoVars, drvVars>>

Abs(v) == IF v < 0 THEN 0 - v ELSE v

Min(a, b) == IF a < b THEN a ELSE b

(***************************************************************************)
(*                             SolverOptions                                *)
(***************************************************************************)

\* The largest BDF order (spec: "BDF order bound (clamped to [1, BDF_MAX_ORDER])",
\* "bdf_order (clamped to [1,6])").
BDF_MAX_ORDER == 6

\* The length of the PARDISO iparm array.
IPARM_SIZE == 64

\* bdf_order is tried from 1 - BdfSlack to BDF_MAX_ORDER + BdfSlack, and at 99.
BdfSlack == 1

\* parallel_fact_control is tried from 0 to MaxKnob, the other PARDISO knobs at 0 and
\* at MaxKnob.
MaxKnob == 2

\* The caller's iparm array holds values from 0 - MaxGarbage to MaxGarbage beforehand.
MaxGarbage == 1

\* Consecutive calls are counted up to MaxRepeat.
MaxRepeat == 2

BdfValues == ((1 - BdfSlack)..(BDF_MAX_ORDER + BdfSlack)) \cup {99}

KnobValues == 0..MaxKnob

IparmIndex == 0..(IPARM_SIZE - 1)

\* Prior contents of the caller's array: one value everywhere, or the index itself.
IparmGarbage ==
    {[i \in IparmIndex |-> g] : g \in (0 - MaxGarbage)..MaxGarbage}
        \cup {[i \in IparmIndex |-> i + 1]}

\* The off-by-one loop bound  i < 63.
ZeroIparmShort(a) == [i \in IparmIndex |-> IF i < IPARM_SIZE - 1 THEN 0 ELSE a[i]]

\* for(MKL_INT i = 0; i < 64; i++) iparm[i] = 0;
ZeroIparm(a) == [i \in IparmIndex |-> 0]

\* if(iparm[23] == 1) { iparm[10] = 0; iparm[12] = 0; }
ParallelFactAdjust(a) == IF a[23] = 1 THEN [a EXCEPT ![10] = 0, ![12] = 0] ELSE a

\* SolverOptions::set_iparm_for_pardiso(MKL_INT *iparm): the assignments in order.
set_iparm_for_pardiso(a, cgs, refine, fact, solve) ==
    LET a0 == ZeroIparm(a)
        a1 == [a0 EXCEPT ![0] = 1, ![1] = 3]
        a2 == [a1 EXCEPT ![3] = cgs]
        a3 == [a2 EXCEPT ![4] = 0, ![5] = 0, ![6] = 0]
        a4 == [a3 EXCEPT ![7] = refine]
        a5 == [a4 EXCEPT ![9] = 13, ![10] = 1, ![11] = 0, ![12] = 1, ![13] = 0,
                         ![14] = 0, ![15] = 0, ![16] = 0, ![17] = 0, ![18] = 0,
                         ![19] = 0]
        a6 == [a5 EXCEPT ![23] = fact]
        a7 == ParallelFactAdjust(a6)
        a8 == [a7 EXCEPT ![24] = solve]
    IN  [a8 EXCEPT ![26] = 0, ![27] = 0, ![29] = 0, ![30] = 0, ![33] = 0,
                   ![34] = 0, ![59] = 0]

\* The test with the upper bound left out.
check_options_lower_only(order) == IF order < 1 THEN 1 ELSE order

\* SolverOptions::check_options(): the value of bdf_order afterwards.
check_options(order) == IF order < 1 \/ order > BDF_MAX_ORDER THEN 1 ELSE order

OptInit ==
    /\ bdf_order \in BdfValues
    /\ opt_op = "constructed"
    /\ bdf_before = bdf_order
    /\ n_checks = 0

OptIdle ==
    /\ bdf_order = 1
    /\ opt_op = "constructed"
    /\ bdf_before = 1
    /\ n_checks = 0

\* The caller assigns the public field bdf_order.
SetBdfOrder ==
    /\ \E v \in BdfValues : bdf_order' = v
    /\ opt_op' = "set"
    /\ n_checks' = 0
    /\ UNCHANGED bdf_before
    /\ UNCHANGED notOptVars

\* opt.check_options()
CheckOptions ==
    /\ bdf_before' = bdf_order
    /\ bdf_order' = check_options(bdf_order)
    /\ opt_op' = "check_options"
    /\ n_checks' = Min(n_checks + 1, MaxRepeat)
    /\ UNCHANGED notOptVars

OptNext == SetBdfOrder \/ CheckOptions

IparmInit ==
    /\ preconditioned_CGS = 0
    /\ refinement_steps = 0
    /\ parallel_fact_control = 0
    /\ parallel_solve_control = 0
    /\ iparm \in IparmGarbage
    /\ iparm_op = "constructed"
    /\ iparm_before = iparm

IparmIdle ==
    /\ preconditioned_CGS = 0
    /\ refinement_steps = 0
    /\ parallel_fact_control = 0
    /\ parallel_solve_control = 0
    /\ iparm = <<>>
    /\ iparm_op = "constructed"
    /\ iparm_before = <<>>

\* The caller assigns the public PARDISO knobs.
SetKnobs ==
    /\ \E c \in {0, MaxKnob}, r \in {0, MaxKnob}, f \in KnobValues, s \in {0, MaxKnob} :
          /\ preconditioned_CGS' = c
          /\ refinement_steps' = r
          /\ parallel_fact_control' = f
          /\ parallel_solve_control' = s
    /\ iparm_op' = "set"
    /\ iparm_before' = iparm
    /\ UNCHANGED iparm
    /\ UNCHANGED notIparmVars

\* The caller hands over an array with other contents.
ScribbleIparm ==
    /\ \E a \in IparmGarbage : iparm' = a /\ iparm_before' = a
    /\ iparm_op' = "set"
    /\ UNCHANGED <<preconditioned_CGS, refinement_steps, parallel_fact_control,
                   parallel_solve_control>>
    /\ UNCHANGED notIparmVars

\* opt.set_iparm_for_pardiso(iparm)
SetIparm ==
    /\ iparm' = set_iparm_for_pardiso(iparm, preconditioned_CGS, refinement_steps,
                                      parallel_fact_control, parallel_solve_control)
    /\ iparm_op' = "set_iparm"
    /\ iparm_before' = iparm
    /\ UNCHANGED <<preconditioned_CGS, refinement_steps, parallel_fact_control,
                   parallel_solve_control>>
    /\ UNCHANGED notIparmVars

IparmNext == SetKnobs \/ ScribbleIparm \/ SetIparm

(***************************************************************************)
(*                          RHS (the unit test)                             *)
(***************************************************************************)

\* The system size of the test: EXPECT_EQ(x.size(), 2).
RHS_SIZE == 2

\* Components of x and f and the time t are tried from 0 - MaxVal to MaxVal.
MaxVal == 1

RhsValues == (0 - MaxVal)..MaxVal

RhsVectors == [1..RHS_SIZE -> RhsValues]

\* The inputs of the test: state_type x{4.0, 6.0}, t{10.0}.
TestX == <<4, 6>>

TestT == 10

\* Only f[0] written.
TestRHSFirstOnly(f, x, t) == [f EXCEPT ![1] = x[1]]

\* TestRHS::operator()(f, x, t): f[0] = x[0]; f[1] = x[1] * t;  (indices from 1 here)
TestRHS(f, x, t) == [[f EXCEPT ![1] = x[1]] EXCEPT ![2] = x[2] * t]

RhsInit ==
    /\ rhs_x = TestX
    /\ rhs_t = TestT
    /\ rhs_f \in RhsVectors
    /\ rhs_op = "constructed"
    /\ rhs_n_eval = 0
    /\ rhs_x_before = rhs_x
    /\ rhs_f_before = rhs_f
    /\ rhs_f_first = <<>>

RhsIdle ==
    /\ rhs_x = [i \in 1..RHS_SIZE |-> 0]
    /\ rhs_t = 0
    /\ rhs_f = [i \in 1..RHS_SIZE |-> 0]
    /\ rhs_op = "constructed"
    /\ rhs_n_eval = 0
    /\ rhs_x_before = rhs_x
    /\ rhs_f_before = rhs_f
    /\ rhs_f_first = <<>>

\* The caller writes something else into f between calls.
RhsScribble ==
    /\ \E g \in RhsVectors : rhs_f' = g /\ rhs_f_before' = g
    /\ rhs_op' = "scribble"
    /\ UNCHANGED <<rhs_x, rhs_t, rhs_n_eval, rhs_x_before, rhs_f_first>>
    /\ UNCHANGED notRhsVars

\* The caller picks another x.
RhsSetX ==
    /\ \E v \in RhsVectors \cup {TestX} : rhs_x' = v /\ rhs_x_before' = v
    /\ rhs_op' = "set"
    /\ rhs_n_eval' = 0
    /\ rhs_f_first' = <<>>
    /\ rhs_f_before' = rhs_f
    /\ UNCHANGED <<rhs_f, rhs_t>>
    /\ UNCHANGED notRhsVars

\* The caller picks another t.
RhsSetT ==
    /\ \E s \in RhsValues \cup {TestT} : rhs_t' = s
    /\ rhs_op' = "set"
    /\ rhs_n_eval' = 0
    /\ rhs_f_first' = <<>>
    /\ rhs_f_before' = rhs_f
    /\ UNCHANGED <<rhs_f, rhs_x, rhs_x_before>>
    /\ UNCHANGED notRhsVars

\* rhs(f, x, t)
RhsEval ==
    /\ rhs_f' = TestRHS(rhs_f, rhs_x, rhs_t)
    /\ rhs_op' = "eval"
    /\ rhs_x_before' = rhs_x
    /\ rhs_f_before' = rhs_f
    /\ rhs_f_first' = IF rhs_n_eval = 0 THEN rhs_f' ELSE rhs_f_first
    /\ rhs_n_eval' = Min(rhs_n_eval + 1, MaxRepeat)
    /\ UNCHANGED <<rhs_x, rhs_t>>
    /\ UNCHANGED notRhsVars

RhsNext == RhsScribble \/ RhsSetX \/ RhsSetT \/ RhsEval

(***************************************************************************)
(*                          JacobianMatrixShape                             *)
(*                                                                         *)
(* The RHS differentiated is the system of the unit test,                  *)
(* f = [x[0], x[1] * t].  J is the caller's matrix, empty on entry; what   *)
(* is recorded is the sequence of insertions J(i, j, v) a build makes.     *)
(***************************************************************************)

\* At most MaxDecl positions are declared.
MaxDecl == 2

\* The builds are tried on state vectors of length 1 to RHS_SIZE.
JacSizes == 1..RHS_SIZE

\* Declared row and column indices are tried from 0 to RHS_SIZE, the last one out of
\* range for every size.
DeclIndex == 0..RHS_SIZE

\* The time the builds are tried at.
JacTimes == {3}

\* What a read through an out-of-range reference may give.
GarbageValues == {-7, 7}

\* reserve(N_elements) is tried with a negative count, with 0, with a count that some
\* build inserts and with one that no build inserts.
ReserveValues == {0 - 1, 0, 1, MaxDecl + 1}

SeqsUpTo(S, n) == UNION {[1..k -> S] : k \in 0..n}

NoReserve == [called |-> FALSE, n |-> 0]

NoIns == [some |-> FALSE, ins |-> <<>>]

Positions(ins) == [k \in 1..Len(ins) |-> <<ins[k][1], ins[k][2]>>]

InRange(k, size) == 0 <= k /\ k < size

\* autodiff::derivative(f, wrt(x_[j]), at(x_, t, i)) for f = [x[0], x[1] * t]
Derivative(i, j, t) == IF i = j THEN (IF i = 0 THEN 1 ELSE t) ELSE 0

\* The value of one insertion: the derivative, or whatever the out-of-range access
\* gives (g).
EntryValue(pos, size, t, g) ==
    IF InRange(pos[1], size) /\ InRange(pos[2], size)
        THEN Derivative(pos[1], pos[2], t)
        ELSE g

\* for (const std::pair<int_type, int_type> &Jn : m_Jn) J(Jn.first, Jn.second, ...);
Insertions(jn, size, t, g) ==
    [k \in 1..Len(jn) |-> <<jn[k][1], jn[k][2], EntryValue(jn[k], size, t, g)>>]

\* if (m_N_elements) J.reserve(m_N_elements);
JReserve(hint) == IF hint # 0 THEN [called |-> TRUE, n |-> hint] ELSE NoReserve

\* The estimate left as it was.
SizeEstimateStale(jn, old) == old

\* m_N_elements = static_cast<int_type>(m_Jn.size());
SizeEstimate(jn, old) == Len(jn)

\* add_element(ind_i, ind_j)
add_element(jn, ind_i, ind_j) == Append(jn, <<ind_i, ind_j>>)

\* add_element(ind_i, std::vector<int_type> ind_j)
add_element_row(jn, ind_i, ind_j) == jn \o [k \in 1..Len(ind_j) |-> <<ind_i, ind_j[k]>>]

ShapeInit ==
    /\ m_Jn = <<>>
    /\ m_N_elements = 0
    /\ shape_op = "constructed"
    /\ shape_ins = <<>>
    /\ shape_size = 0
    /\ shape_t = 0
    /\ shape_x_index = {}
    /\ j_reserve = NoReserve
    /\ n_builds = 0
    /\ last_count = 0
    /\ prev_count = 0
    /\ prev_ins = NoIns
    /\ res_since = NoReserve
    /\ res_at_build = NoReserve

ShapeIdle == ShapeInit

\* An uncaught exception or a crash ends the program.
ShapeAlive == shape_op \notin {"crashed", "thrown"}

\* What every operation other than a build leaves of the latest build's record.
ShapeForgetBuild ==
    /\ shape_ins' = <<>>
    /\ shape_size' = 0
    /\ shape_t' = 0
    /\ shape_x_index' = {}
    /\ j_reserve' = NoReserve
    /\ prev_count' = 0
    /\ prev_ins' = NoIns
    /\ res_at_build' = NoReserve
    /\ UNCHANGED <<n_builds, last_count>>

\* jac.add_element(ind_i, ind_j)
AddElement ==
    /\ ShapeAlive
    /\ Len(m_Jn) < MaxDecl
    /\ \E i \in DeclIndex, j \in DeclIndex : m_Jn' = add_element(m_Jn, i, j)
    /\ shape_op' = "add_element"
    /\ ShapeForgetBuild
    /\ UNCHANGED <<m_N_elements, res_since>>
    /\ UNCHANGED notShapeVars

\* jac.add_element(ind_i, {j_1, ..., j_k})
AddElementRow ==
    /\ ShapeAlive
    /\ \E i \in DeclIndex, js \in SeqsUpTo(DeclIndex, MaxDecl - Len(m_Jn)) :
          m_Jn' = add_element_row(m_Jn, i, js)
    /\ shape_op' = "add_element"
    /\ ShapeForgetBuild
    /\ UNCHANGED <<m_N_elements, res_since>>
    /\ UNCHANGED notShapeVars

\* jac.clear()
ShapeClear ==
    /\ ShapeAlive
    /\ m_Jn' = <<>>
    /\ shape_op' = "clear"
    /\ ShapeForgetBuild
    /\ UNCHANGED <<m_N_elements, res_since>>
    /\ UNCHANGED notShapeVars

\* jac.reserve(N_elements): m_Jn.reserve of a negative count throws
\* std::length_error after m_N_elements is set.
ShapeReserve ==
    /\ ShapeAlive
    /\ \E n \in ReserveValues :
          /\ m_N_elements' = n
          /\ res_since' = [called |-> TRUE, n |-> n]
          /\ shape_op' = IF n < 0 THEN "thrown" ELSE "reserve"
    /\ ShapeForgetBuild
    /\ UNCHANGED m_Jn
    /\ UNCHANGED notShapeVars

\* jac(J, x, t) with x.size() = size.  x_[Jn.second] with Jn.second outside
\* [0, size) is undefined behaviour: the read gives some value g and the build goes
\* on, or the program dies at that position (crash > 0).
ShapeBuild ==
    /\ ShapeAlive
    /\ \E size \in JacSizes, t \in JacTimes, g \in GarbageValues, crash \in 0..Len(m_Jn) :
          LET all == Insertions(m_Jn, size, t, g)
          IN  /\ crash > 0 => ~InRange(m_Jn[crash][2], size)
              /\ \A k \in 1..(crash - 1) : InRange(m_Jn[k][2], size)
              /\ shape_size' = size
              /\ shape_t' = t
              /\ j_reserve' = JReserve(m_N_elements)
              /\ shape_ins' = IF crash > 0 THEN SubSeq(all, 1, crash - 1) ELSE all
              /\ shape_x_index' =
                    {m_Jn[k][2] : k \in 1..(IF crash > 0 THEN crash ELSE Len(m_Jn))}
              /\ m_N_elements' =
                    IF crash > 0 THEN m_N_elements ELSE SizeEstimate(m_Jn, m_N_elements)
              /\ shape_op' = IF crash > 0 THEN "crashed" ELSE "built"
              /\ last_count' = Len(shape_ins')
    /\ prev_count' = last_count
    /\ prev_ins' = IF shape_op = "built"
                       THEN [some |-> TRUE, ins |-> Positions(shape_ins)]
                       ELSE NoIns
    /\ res_at_build' = res_since
    /\ res_since' = NoReserve
    /\ n_builds' = Min(n_builds + 1, 2)
    /\ UNCHANGED m_Jn
    /\ UNCHANGED notShapeVars

ShapeNext == AddElement \/ AddElementRow \/ ShapeClear \/ ShapeReserve \/ ShapeBuild

(***************************************************************************)
(*                           JacobianAutomatic                              *)
(***************************************************************************)

\* The tolerance of the dense-to-sparse conversion, the unit of the Jacobian values.
DAECPP_SPARSE_MATRIX_ELEMENT_TOLERANCE == 1

\* Dense Jacobian values are tried from 0 - (tolerance + JacSlack) to
\* tolerance + JacSlack.
JacSlack == 1

JacValues ==
    (0 - (DAECPP_SPARSE_MATRIX_ELEMENT_TOLERANCE + JacSlack))
        ..(DAECPP_SPARSE_MATRIX_ELEMENT_TOLERANCE + JacSlack)

DenseMatrices(size) == [(0..(size - 1)) \X (0..(size - 1)) -> JacValues]

\* The comparison made with >=.
AboveToleranceOrAt(val) == Abs(val) >= DAECPP_SPARSE_MATRIX_ELEMENT_TOLERANCE

\* std::abs(val) > DAECPP_SPARSE_MATRIX_ELEMENT_TOLERANCE
AboveTolerance(val) == Abs(val) > DAECPP_SPARSE_MATRIX_ELEMENT_TOLERANCE

\* for (j = 0; j < size; ++j) for (i = 0; i < size; ++i) { ... J(i, j, val); }
\* from the k-th pass of the inner loop body on, k = j * size + i.
RECURSIVE DenseToSparse(_, _, _)
DenseToSparse(jac, size, k) ==
    IF k >= size * size
        THEN <<>>
        ELSE LET j == k \div size
                 i == k % size
                 val == jac[<<i, j>>]
             IN  (IF AboveTolerance(val) THEN <<<<i, j, val>>>> ELSE <<>>)
                     \o DenseToSparse(jac, size, k + 1)

AutoInit == auto_size = 0 /\ auto_jac = <<>> /\ auto_ins = <<>> /\ auto_op = "constructed"

AutoIdle == AutoInit

\* jac(J, x, t) with x.size() = size; autodiff::jacobian returns the dense matrix.
AutoBuild ==
    /\ auto_op = "constructed"
    /\ \E size \in JacSizes :
          \E jac \in DenseMatrices(size) :
              /\ auto_size' = size
              /\ auto_jac' = jac
              /\ auto_ins' = DenseToSparse(jac, size, 0)
    /\ auto_op' = "built"
    /\ UNCHANGED notAutoVars

\* The caller is done with J; the object keeps nothing of the build.
AutoDone ==
    /\ auto_op = "built"
    /\ auto_size' = 0 /\ auto_jac' = <<>> /\ auto_ins' = <<>> /\ auto_op' = "constructed"
    /\ UNCHANGED notAutoVars

AutoNext == AutoBuild \/ AutoDone

(***************************************************************************)
(*                  SolutionManager, SolutionHolder, Solution               *)
(***************************************************************************)

\* Solution::operator() is called at most MaxCalls times.
MaxCalls == 2

\* Times are tried from 0 to MaxTime.
MaxTime == 2

\* t_output holds at most MaxOut times.
MaxOut == 2

SolTimes == 0..MaxTime

\* The solution vectors passed to the Solution Manager.
SolStates == {<<4, 6>>, <<5, 7>>}

\* SolutionManager::operator()(x, t): does nothing and returns 0.
SolutionManager_call(x, t) == 0

RECURSIVE InsertSorted(_, _)
InsertSorted(s, v) ==
    IF s = <<>>
        THEN <<v>>
        ELSE IF v < Head(s)
                 THEN <<v>> \o s
                 ELSE <<Head(s)>> \o InsertSorted(Tail(s), v)

RECURSIVE SortedSeq(_)
SortedSeq(s) == IF s = <<>> THEN <<>> ELSE InsertSorted(SortedSeq(Tail(s)), Head(s))

\* The constructor without its std::sort.
Solution_ctor_unsorted(t_output) == t_output

\* Solution::Solution(sol, t_output): _t_out(t_output), sorted when not empty.
Solution_ctor(t_output) == IF Len(t_output) > 0 THEN SortedSeq(t_output) ELSE t_output

\* std::lower_bound over s[first .. first + len - 1] (indices from 1).
RECURSIVE lower_bound(_, _, _, _)
lower_bound(s, v, first, len) ==
    IF len <= 0
        THEN first
        ELSE LET half == len \div 2
                 mid == first + half
             IN  IF s[mid] < v
                     THEN lower_bound(s, v, mid + 1, len - half - 1)
                     ELSE lower_bound(s, v, first, half)

\* std::binary_search(_t_out.begin(), _t_out.end(), t_)
binary_search(s, v) ==
    LET i == lower_bound(s, v, 1, Len(s))
    IN  i <= Len(s) /\ ~(v < s[i])

\* The filter of Solution::operator(): TRUE when (x_, t_) is written.
Solution_writes(tout, t_) == ~(Len(tout) > 0 /\ ~binary_search(tout, t_))

SolInit ==
    /\ \E pre \in {<<>>, <<<<<<4, 6>>, 0>>>>} :
          /\ sol_x0 = [k \in 1..Len(pre) |-> pre[k][1]]
          /\ sol_t0 = [k \in 1..Len(pre) |-> pre[k][2]]
    /\ sol_x = sol_x0
    /\ sol_t = sol_t0
    /\ sol_t_output \in SeqsUpTo(SolTimes, MaxOut)
    /\ t_out = Solution_ctor(sol_t_output)
    /\ sol_calls = <<>>
    /\ sol_ret = 0
    /\ print_assert = "none"

SolIdle ==
    /\ sol_x = <<>> /\ sol_t = <<>> /\ t_out = <<>> /\ sol_t_output = <<>>
    /\ sol_x0 = <<>> /\ sol_t0 = <<>> /\ sol_calls = <<>> /\ sol_ret = 0
    /\ print_assert = "none"

\* solution(x_, t_)
SolutionCall ==
    /\ Len(sol_calls) < MaxCalls
    /\ \E x_ \in SolStates, t_ \in SolTimes :
          /\ sol_calls' = Append(sol_calls, <<x_, t_>>)
          /\ IF Solution_writes(t_out, t_)
                 THEN /\ sol_x' = Append(sol_x, x_)
                      /\ sol_t' = Append(sol_t, t_)
                 ELSE UNCHANGED <<sol_x, sol_t>>
          /\ sol_ret' = 0
    /\ UNCHANGED <<t_out, sol_t_output, sol_x0, sol_t0, print_assert>>
    /\ UNCHANGED notSolVars

\* sol.print(): ASSERT(t.size() == x.size(), ...)
SolutionPrint ==
    /\ print_assert' = IF Len(sol_t) = Len(sol_x) THEN "passed" ELSE "failed"
    /\ UNCHANGED <<sol_x, sol_t, t_out, sol_t_output, sol_x0, sol_t0, sol_calls, sol_ret>>
    /\ UNCHANGED notSolVars

SolNext == SolutionCall \/ SolutionPrint

(***************************************************************************)
(*            Solver: the step controller and the integration driver        *)
(*                                                                         *)
(* Solver::operator() is declared in the sources and defined elsewhere;    *)
(* the controller and the driver follow the design's sections 3, 4.4, 4.5, *)
(* 4.6 and 7.  Times and step sizes are integers in units of the smallest  *)
(* step size; a state is named by the number of the attempt that computed  *)
(* it, the initial state by 0.                                             *)
(***************************************************************************)

\* The end of the integration interval, t1.
DrvT1 == 3

\* The configured initial step size, dt_init.
DrvDtInit == 2

\* The bound on consecutive failed or rejected attempts.
DrvMaxRetries == 2

\* The smallest viable step size.
DrvMinStep == 1

\* What a user's Solution Manager may return.
ManagerReturns == {0, 1}

NoReport == [made |-> FALSE, x |-> 0, t |-> 0]

Report(x, t) == [made |-> TRUE, x |-> x, t |-> t]

LastOf(s, n) == SubSeq(s, Len(s) - n + 1, Len(s))

\* The corrector writing its iterate into the accepted state.
AfterFailedAttemptLeak(accepted, iterate) == iterate

\* 4.4: the corrector "never partially mutates the caller's accepted state on failure".
AfterFailedAttempt(accepted, iterate) == accepted

\* The callback's return value ignored.
AfterCallbackIgnored(ret, t) == IF t >= DrvT1 THEN "finished" ELSE "running"

\* 4.6: "if the callback signals non-zero, terminate immediately and report a
\* caller-requested-stop status"; 4.5: "Terminal condition: t >= t1".
AfterCallback(ret, t) ==
    IF ret # 0 THEN "stopped" ELSE IF t >= DrvT1 THEN "finished" ELSE "running"

\* 3: the step history is "the last k accepted state vectors".
ShiftHistory(hist, x, k) == LastOf(Append(hist, x), Min(k, Len(hist) + 1))

\* 3: "discarded when a smaller order is selected (oldest entries dropped)".
DropOldest(hist, k) == LastOf(hist, Min(k, Len(hist)))

\* 4.5 "Initial state: order 1, h = dt_init".
DrvInit ==
    /\ drv_status = "running"
    /\ drv_phase = "correct"
    /\ drv_t = 0
    /\ drv_x = 0
    /\ drv_hist = <<0>>
    /\ drv_h = DrvDtInit
    /\ drv_k = 1
    /\ drv_fail = 0
    /\ drv_cand = 0
    /\ drv_attempt = 0
    /\ drv_error = "none"
    /\ drv_report = NoReport
    /\ drv_manager \in {"default", "user"}
    /\ drv_calls = <<>>
    /\ drv_accepted = <<>>
    /\ drv_hist_accept = <<0>>

DrvIdle ==
    /\ drv_status = "idle"
    /\ drv_phase = "correct"
    /\ drv_t = 0
    /\ drv_x = 0
    /\ drv_hist = <<0>>
    /\ drv_h = DrvDtInit
    /\ drv_k = 1
    /\ drv_fail = 0
    /\ drv_cand = 0
    /\ drv_attempt = 0
    /\ drv_error = "none"
    /\ drv_report = NoReport
    /\ drv_manager = "default"
    /\ drv_calls = <<>>
    /\ drv_accepted = <<>>
    /\ drv_hist_accept = <<0>>

\* 4.5/7: a failed or rejected attempt is retried with half the step, or with the
\* order reduced when the step is the smallest, up to the retry bound; past it, or
\* with nothing left to reduce, the failure is fatal and the driver reports it with
\* the last accepted state and time (4.6).
Recover(fatal, iterate) ==
    LET x == AfterFailedAttempt(drv_x, iterate)
    IN  /\ drv_x' = x
        /\ drv_cand' = 0
        /\ drv_phase' = "correct"
        /\ UNCHANGED <<drv_t, drv_manager, drv_calls, drv_accepted, drv_hist_accept>>
        /\ IF drv_fail + 1 > DrvMaxRetries
               THEN /\ drv_status' = "failed"
                    /\ drv_error' = fatal
                    /\ drv_report' = Report(x, drv_t)
                    /\ UNCHANGED <<drv_h, drv_k, drv_hist, drv_fail>>
               ELSE IF drv_h > DrvMinStep
                   THEN /\ drv_h' = drv_h \div 2
                        /\ drv_fail' = drv_fail + 1
                        /\ UNCHANGED <<drv_status, drv_error, drv_report, drv_k, drv_hist>>
                   ELSE IF drv_k > 1
                       THEN /\ drv_k' = drv_k - 1
                            /\ drv_hist' = DropOldest(drv_hist, drv_k - 1)
                            /\ drv_fail' = drv_fail + 1
                            /\ UNCHANGED <<drv_status, drv_error, drv_report, drv_h>>
                       ELSE /\ drv_status' = "failed"
                            /\ drv_error' = "StepSizeUnderflow"
                            /\ drv_report' = Report(x, drv_t)
                            /\ UNCHANGED <<drv_h, drv_k, drv_hist, drv_fail>>

\* 4.4: the corrector converges.
NewtonConverges ==
    /\ drv_status = "running" /\ drv_phase = "correct"
    /\ drv_attempt' = drv_attempt + 1
    /\ drv_cand' = drv_attempt + 1
    /\ drv_phase' = "evaluate"
    /\ UNCHANGED <<drv_status, drv_t, drv_x, drv_hist, drv_h, drv_k, drv_fail, drv_error,
                   drv_report, drv_manager, drv_calls, drv_accepted, drv_hist_accept>>
    /\ UNCHANGED notDrvVars

\* 4.4: the iteration count exceeds the configured maximum.
NewtonFails ==
    /\ drv_status = "running" /\ drv_phase = "correct"
    /\ drv_attempt' = drv_attempt + 1
    /\ Recover("ConvergenceFailure", drv_attempt + 1)
    /\ UNCHANGED notDrvVars

\* 4.4/7: the backend reports a singular system: not recoverable, the run is aborted.
LinearSolveFails ==
    /\ drv_status = "running" /\ drv_phase = "correct"
    /\ drv_attempt' = drv_attempt + 1
    /\ drv_x' = AfterFailedAttempt(drv_x, drv_attempt + 1)
    /\ drv_status' = "failed"
    /\ drv_error' = "LinearSolveFailure"
    /\ drv_report' = Report(drv_x', drv_t)
    /\ UNCHANGED <<drv_phase, drv_t, drv_hist, drv_h, drv_k, drv_fail, drv_cand,
                   drv_manager, drv_calls, drv_accepted, drv_hist_accept>>
    /\ UNCHANGED notDrvVars

\* 4.5: the error estimate exceeds the tolerance: the step is rejected.
ErrorTooLarge ==
    /\ drv_status = "running" /\ drv_phase = "evaluate"
    /\ Recover("StepSizeUnderflow", drv_cand)
    /\ UNCHANGED drv_attempt
    /\ UNCHANGED notDrvVars

\* 4.5/4.6: the step is accepted, the history shifted, the order and the step size
\* of the next step chosen, and the Solution Manager called with the new (x, t).
Accept ==
    /\ drv_status = "running" /\ drv_phase = "evaluate"
    /\ drv_x' = drv_cand
    /\ drv_t' = drv_t + drv_h
    /\ drv_accepted' = Append(drv_accepted, <<drv_cand, drv_t + drv_h>>)
    /\ \E k \in {drv_k, Min(drv_k + 1, BDF_MAX_ORDER)} :
          /\ drv_hist' = ShiftHistory(drv_hist, drv_cand, k)
          /\ drv_k' = Len(drv_hist')
    /\ drv_hist_accept' = drv_hist'
    /\ \E h \in {drv_h, Min(2 * drv_h, DrvDtInit)} : drv_h' = h
    /\ drv_fail' = 0
    /\ drv_cand' = 0
    /\ drv_phase' = "correct"
    /\ \E ret \in (IF drv_manager = "default"
                      THEN {SolutionManager_call(drv_cand, drv_t + drv_h)}
                      ELSE ManagerReturns) :
          /\ drv_calls' = Append(drv_calls, [x |-> drv_cand, t |-> drv_t + drv_h, ret |-> ret])
          /\ drv_status' = AfterCallback(ret, drv_t + drv_h)
    /\ drv_report' = IF drv_status' = "running" THEN NoReport ELSE Report(drv_x', drv_t')
    /\ UNCHANGED <<drv_attempt, drv_error, drv_manager>>
    /\ UNCHANGED notDrvVars

DrvNext == NewtonConverges \/ NewtonFails \/ LinearSolveFails \/ ErrorTooLarge \/ Accept

(***************************************************************************)
(*                            Specifications                                *)
(***************************************************************************)

InitOptions == OptInit /\ IparmIdle /\ RhsIdle /\ ShapeIdle /\ AutoIdle /\ SolIdle /\ DrvIdle

SpecOptions == InitOptions /\ [][OptNext]_vars

InitIparm == OptIdle /\ IparmInit /\ RhsIdle /\ ShapeIdle /\ AutoIdle /\ SolIdle /\ DrvIdle

SpecIparm == InitIparm /\ [][IparmNext]_vars

InitRHS == OptIdle /\ IparmIdle /\ RhsInit /\ ShapeIdle /\ AutoIdle /\ SolIdle /\ DrvIdle

SpecRHS == InitRHS /\ [][RhsNext]_vars

InitShape == OptIdle /\ IparmIdle /\ RhsIdle /\ ShapeInit /\ AutoIdle /\ SolIdle /\ DrvIdle

SpecShape == InitShape /\ [][ShapeNext]_vars

InitAuto == OptIdle /\ IparmIdle /\ RhsIdle /\ ShapeIdle /\ AutoInit /\ SolIdle /\ DrvIdle

SpecAuto == InitAuto /\ [][AutoNext]_vars

InitSolution == OptIdle /\ IparmIdle /\ RhsIdle /\ ShapeIdle /\ AutoIdle /\ SolInit /\ DrvIdle

SpecSolution == InitSolution /\ [][SolNext]_vars

InitSolver ==
    OptIdle /\ IparmIdle /\ RhsIdle /\ ShapeIdle /\ AutoIdle /\ SolIdle /\ DrvInit

SpecSolver == InitSolver /\ [][DrvNext]_vars

(***************************************************************************)
(*                               Properties                                 *)
(***************************************************************************)

BdfInRange(order) == 1 <= order /\ order <= BDF_MAX_ORDER

\* C1: after check_options() bdf_order is within [1, BDF_MAX_ORDER]: an out-of-range
\* value (0, 99, ...) has become 1, an in-range value is unchanged, and a second
\* check_options() in a row changes nothing.
C1_BdfOrderClamp ==
    opt_op = "check_options" =>
        /\ BdfInRange(bdf_order)
        /\ ~BdfInRange(bdf_before) => bdf_order = 1
        /\ BdfInRange(bdf_before) => bdf_order = bdf_before
        /\ n_checks >= 2 => bdf_order = bdf_before

\* C1 witness: check_options() has just turned bdf_order = 99 into 1.
C1_Witness == opt_op = "check_options" /\ bdf_before = 99 /\ bdf_order = 1

\* What C10 says iparm holds, entry by entry.
ExpectedIparm ==
    [i \in IparmIndex |->
        CASE i = 0 -> 1
          [] i = 1 -> 3
          [] i = 3 -> preconditioned_CGS
          [] i = 7 -> refinement_steps
          [] i = 9 -> 13
          [] i = 10 -> IF parallel_fact_control = 1 THEN 0 ELSE 1
          [] i = 12 -> IF parallel_fact_control = 1 THEN 0 ELSE 1
          [] i = 23 -> parallel_fact_control
          [] i = 24 -> parallel_solve_control
          [] OTHER -> 0]

\* C10: set_iparm_for_pardiso overwrites all 64 entries: the array afterwards depends
\* on the four options only, not on what it held before.
C10_IparmFromOptions == iparm_op = "set_iparm" => iparm = ExpectedIparm

\* C10 witness: the call was made on an array holding non-zero values everywhere, with
\* parallel_fact_control = 1.
C10_Witness ==
    /\ iparm_op = "set_iparm"
    /\ \A i \in IparmIndex : iparm_before[i] # 0
    /\ parallel_fact_control = 1
    /\ refinement_steps = MaxKnob
    /\ iparm[10] = 0

\* C7: rhs(f, x, t) leaves f = [x[0], x[1] * t] of length N whatever f held before,
\* leaves x as it was, and gives the same f when called again on the same (x, t).
C7_RhsOverwrites ==
    rhs_op = "eval" =>
        /\ rhs_f = <<rhs_x[1], rhs_x[2] * rhs_t>>
        /\ Len(rhs_f) = RHS_SIZE
        /\ Len(rhs_x) = RHS_SIZE
        /\ rhs_x = rhs_x_before
        /\ rhs_n_eval >= 2 => rhs_f = rhs_f_first

\* C7 witness: the test's call (x = [4, 6], t = 10) made twice, the second time on an f
\* holding something else: f = [4, 60].
C7_Witness ==
    /\ rhs_op = "eval"
    /\ rhs_n_eval >= 2
    /\ rhs_x = TestX /\ rhs_t = TestT
    /\ rhs_f_before # rhs_f
    /\ rhs_f = <<4, 60>>

ShapeBuilt == shape_op \in {"built", "crashed"}

\* C4: a build makes exactly one insertion per declared position, in declaration
\* order, duplicates kept, and leaves the declared list as it was, so that consecutive
\* builds insert the same positions in the same order.
C4_OneInsertionPerPosition ==
    ShapeBuilt =>
        /\ Len(shape_ins) = Len(m_Jn)
        /\ Positions(shape_ins) = m_Jn
        /\ prev_ins.some => Positions(shape_ins) = prev_ins.ins

\* C4 restricted to the builds that run to their end: the insertions are the declared
\* positions, in order.
C4_CompletedBuilds ==
    shape_op = "built" =>
        /\ Positions(shape_ins) = m_Jn
        /\ prev_ins.some => Positions(shape_ins) = prev_ins.ins

\* C6: every inserted entry has its row and its column within [0, N), and x_ is
\* subscripted within [0, N) only.
C6_IndicesInRange ==
    ShapeBuilt =>
        /\ \A k \in 1..Len(shape_ins) :
              InRange(shape_ins[k][1], shape_size) /\ InRange(shape_ins[k][2], shape_size)
        /\ \A j \in shape_x_index : InRange(j, shape_size)

\* C9 as stated: on every build but the first, what J.reserve pre-sizes is the number
\* of insertions of the previous build (nothing pre-sized counts as 0).
C9_ReserveIsPreviousCount ==
    (ShapeBuilt /\ n_builds >= 2) => j_reserve.n = prev_count

\* C9 amended: on every build but the first, the count given to J.reserve is that of
\* reserve(n) if reserve was called since the previous build, and the number of
\* insertions of the previous build otherwise; J.reserve is called iff it is not 0.
C9_ReserveIsHint ==
    (ShapeBuilt /\ n_builds >= 2) =>
        LET hint == IF res_at_build.called THEN res_at_build.n ELSE prev_count
        IN  /\ j_reserve.n = hint
            /\ j_reserve.called <=> hint # 0

\* C9 witness: a second build, after a clear() and an add_element() but no reserve(),
\* pre-sizes J with the 2 insertions of the build before.
C9_Witness ==
    /\ ShapeBuilt /\ n_builds >= 2
    /\ ~res_at_build.called
    /\ prev_count = 2
    /\ Len(m_Jn) = 1
    /\ j_reserve = [called |-> TRUE, n |-> 2]

AutoPositions == (0..(auto_size - 1)) \X (0..(auto_size - 1))

\* C5: the insertions are exactly the positions of the dense N x N Jacobian whose
\* magnitude is above the tolerance, each once and with its dense value.
C5_SparsifyAboveTolerance ==
    auto_op = "built" =>
        /\ \A pos \in AutoPositions :
              Abs(auto_jac[pos]) > DAECPP_SPARSE_MATRIX_ELEMENT_TOLERANCE
                  <=> \E k \in 1..Len(auto_ins) :
                          auto_ins[k] = <<pos[1], pos[2], auto_jac[pos]>>
        /\ \A k \in 1..Len(auto_ins) :
              /\ <<auto_ins[k][1], auto_ins[k][2]>> \in AutoPositions
              /\ auto_ins[k][3] = auto_jac[<<auto_ins[k][1], auto_ins[k][2]>>]
        /\ \A k1, k2 \in 1..Len(auto_ins) :
              (auto_ins[k1][1] = auto_ins[k2][1] /\ auto_ins[k1][2] = auto_ins[k2][2])
                  => k1 = k2

\* C5 witness: a 2 x 2 Jacobian with an entry above the tolerance, one at it, one at
\* minus it and one below minus it: two insertions.
C5_Witness ==
    /\ auto_op = "built"
    /\ auto_size = 2
    /\ auto_jac[<<0, 0>>] = DAECPP_SPARSE_MATRIX_ELEMENT_TOLERANCE + 1
    /\ auto_jac[<<1, 0>>] = DAECPP_SPARSE_MATRIX_ELEMENT_TOLERANCE
    /\ auto_jac[<<0, 1>>] = 0 - DAECPP_SPARSE_MATRIX_ELEMENT_TOLERANCE
    /\ auto_jac[<<1, 1>>] = 0 - (DAECPP_SPARSE_MATRIX_ELEMENT_TOLERANCE + 1)
    /\ Len(auto_ins) = 2

\* The calls whose time passes the output filter: all of them when t_output is empty,
\* else those whose t_ is an element of t_output.
SolPasses(call) ==
    sol_t_output = <<>> \/ \E k \in 1..Len(sol_t_output) : sol_t_output[k] = call[2]

SolKept == SelectSeq(sol_calls, SolPasses)

\* C8: the holder's x and t are what they held at first followed by the (x_, t_) of
\* the calls that pass the filter, in call order and aligned; so x.size() == t.size()
\* and the ASSERT of print() holds.
C8_HolderAligned ==
    /\ sol_x = sol_x0 \o [k \in 1..Len(SolKept) |-> SolKept[k][1]]
    /\ sol_t = sol_t0 \o [k \in 1..Len(SolKept) |-> SolKept[k][2]]
    /\ Len(sol_x) = Len(sol_t)
    /\ print_assert # "failed"
    /\ sol_ret = 0

\* C8 witness: t_output given out of order, two calls of which one passes the filter, a
\* holder that held an entry at first, and print() made.
C8_Witness ==
    /\ Len(sol_t_output) = 2 /\ sol_t_output[1] > sol_t_output[2]
    /\ Len(sol_calls) = 2
    /\ Len(sol_x0) = 1
    /\ Len(sol_x) = 2
    /\ sol_calls[2][2] = sol_t_output[2]
    /\ print_assert = "passed"

LastAccepted ==
    IF drv_accepted = <<>> THEN <<0, 0>> ELSE drv_accepted[Len(drv_accepted)]

\* C2: the callback invocations are the accepted steps, in order, one each and none
\* for a failed or rejected attempt; a non-zero return is the last invocation: the run
\* is then stopped (not failed), reports the step just accepted, and takes no step more.
C2_CallbackPerAcceptedStep ==
    /\ Len(drv_calls) = Len(drv_accepted)
    /\ \A k \in 1..Len(drv_calls) :
          /\ drv_calls[k].x = drv_accepted[k][1]
          /\ drv_calls[k].t = drv_accepted[k][2]
          /\ drv_calls[k].ret # 0 => (k = Len(drv_calls) /\ drv_status = "stopped")
    /\ drv_status = "stopped" =>
          /\ drv_calls # <<>>
          /\ drv_calls[Len(drv_calls)].ret # 0
          /\ drv_error = "none"
          /\ drv_report = Report(LastAccepted[1], LastAccepted[2])
          /\ drv_report.t <= drv_calls[Len(drv_calls)].t
          /\ ~ENABLED DrvNext

\* C2 witness: the run was stopped by the second invocation, after an attempt that
\* was not accepted.
C2_Witness ==
    /\ drv_status = "stopped"
    /\ Len(drv_calls) = 2
    /\ drv_attempt > Len(drv_accepted)

\* C3 as stated: the accepted state and time are those of the latest accepted step,
\* the step history is the one that step left, and a fatal failure is reported with
\* that state and time.
C3_AttemptsKeepStateAndHistory ==
    /\ drv_x = LastAccepted[1]
    /\ drv_t = LastAccepted[2]
    /\ drv_hist = drv_hist_accept
    /\ drv_status = "failed" =>
          (drv_error # "none" /\ drv_report = Report(LastAccepted[1], LastAccepted[2]))

\* C3 amended: the accepted state and time are those of the latest accepted step, the
\* step history is the one that step left less, at most, its oldest entries (dropped
\* when a failed attempt makes the controller reduce the order), and a fatal failure
\* is reported with that state and time.
C3_AttemptsKeepState ==
    /\ drv_x = LastAccepted[1]
    /\ drv_t = LastAccepted[2]
    /\ Len(drv_hist) >= 1
    /\ Len(drv_hist) <= Len(drv_hist_accept)
    /\ drv_hist = LastOf(drv_hist_accept, Len(drv_hist))
    /\ drv_hist[Len(drv_hist)] = drv_x
    /\ drv_status = "failed" =>
          (drv_error # "none" /\ drv_report = Report(LastAccepted[1], LastAccepted[2]))

\* C3 witness: a fatal failure after an accepted step and after an order reduction that
\* dropped the oldest entry of the history.
C3_Witness ==
    /\ drv_status = "failed"
    /\ drv_accepted # <<>>
    /\ Len(drv_hist) < Len(drv_hist_accept)
    /\ drv_report = Report(drv_x, drv_t)

=============================================================================
